---- MODULE Spec2Model ----
(***************************************************************************)
(* Model of the weather pipeline of pal371/weather-impact-app:             *)
(*   src/src/weather_fetcher.py     _get_json_with_retries,                *)
(*                                  fetch_openmeteo_daily,                 *)
(*                                  download_paca_cities                   *)
(*   src/src/weather_processing.py  validate_raw_schema,                   *)
(*                                  add_climate_indicators,                *)
(*                                  process_raw_to_processed               *)
(*                                                                         *)
(* Three specifications share the definitions:                             *)
(*   SpecHTTP  _get_json_with_retries called directly, one step per        *)
(*             request and per sleep, for every retries in 0..MaxRetries.  *)
(*   Spec      download_paca_cities and process_raw_to_processed called    *)
(*             in any order on one date range, one step per city fetched.  *)
(*   SpecProc  the processing functions applied to bounded raw datasets.   *)
(*                                                                         *)
(* Representation.  Dates are day numbers; NaT is the missing date.  A     *)
(* numeric cell is a record [k, n, s]: a number n in tenths of a unit      *)
(* (k = "num"), the missing value NaN (k = "nan"), or a text s that has    *)
(* not been parsed (k = "text").  Strings that the code orders (column     *)
(* names, city names) carry their rank in Python's string order.           *)
(***************************************************************************)
EXTENDS Integers, Sequences, FiniteSets, Bags, TLC

VARIABLES
    client,      \* frame of the running/last _get_json_with_retries call
    log,         \* history: the responses the current client call received
    start_date,  \* the date range the calls of this behaviour are made with
    end_date,
    fs_raw,      \* data/raw:       path -> file content, or NoFile
    fs_processed,\* data/processed: path -> file content, or NoFile
    dl,          \* frame of the running/last download_paca_cities call
    archive,     \* the daily entries the upstream archive serves for the range
    proc,        \* outcome of the last processing call
    df           \* the DataFrame handed to the processing functions

vars == <<client, log, start_date, end_date, fs_raw, fs_processed, dl, archive, proc, df>>

(***************************************************************************)
(* Bounds of the model.                                                    *)
(***************************************************************************)
MaxRetries == 3   \* retries arguments 0..MaxRetries in direct client calls
MaxDate == 2      \* requested dates are 1..MaxDate, served dates 0..MaxDate+1
MaxRows == 2      \* longest raw dataset handed to the processing functions

(***************************************************************************)
(* Values.                                                                 *)
(***************************************************************************)
NaT == 0 - 1                       \* pandas NaT: a date that is missing
BadTime == 0 - 2                   \* a daily.time entry that is not a date
Dates == 0 .. (MaxDate + 1)
NoCity == "<NA>"                   \* a missing city cell

Num(n) == [k |-> "num", n |-> n, s |-> <<>>]
NaN == [k |-> "nan", n |-> 0, s |-> <<>>]
Text(s) == [k |-> "text", n |-> 0, s |-> s]

RECURSIVE Pow(_, _)
Pow(b, e) == IF e = 0 THEN 1 ELSE b * Pow(b, e - 1)

SeqsUpTo(S, n) == UNION {[1..m -> S] : m \in 0..n}

(***************************************************************************)
(* Exceptions.                                                             *)
(***************************************************************************)
Exc(type, status, msg) == [type |-> type, status |-> status, msg |-> msg]
NoExc == Exc("None", 0, "")

(***************************************************************************)
(* The upstream API.  A response is either a network-level failure (net    *)
(* names the exception requests.get raises) or an HTTP response with a     *)
(* status code and a body that parses as JSON (to `payload`) or does not.  *)
(* A payload is the parsed JSON: whether it has "daily", whether that has  *)
(* "time", and the position-aligned daily entries.                         *)
(***************************************************************************)
Payload(daily, time, series) == [daily |-> daily, time |-> time, series |-> series]
NoPayload == Payload(FALSE, FALSE, <<>>)

Entry(t) ==
    [time |-> t, temperature_2m_max |-> Num(310), temperature_2m_min |-> Num(190),
     precipitation_sum |-> Num(0), wind_speed_10m_max |-> NaN]

NetFailure(e) == [net |-> e, status |-> 0, json_ok |-> FALSE, payload |-> NoPayload]
HttpStatus(s) == [net |-> "", status |-> s, json_ok |-> FALSE, payload |-> NoPayload]
HttpGarbage == [net |-> "", status |-> 200, json_ok |-> FALSE, payload |-> NoPayload]
HttpJson(p) == [net |-> "", status |-> 200, json_ok |-> TRUE, payload |-> p]

ErrorStatuses == {400, 404, 429, 500, 502, 503, 504}
SamplePayloads == {Payload(TRUE, TRUE, <<Entry(1)>>), Payload(TRUE, TRUE, <<>>)}
Responses ==
    {NetFailure(e) : e \in {"ConnectionError", "Timeout"}}
        \cup {HttpStatus(s) : s \in ErrorStatuses}
        \cup {HttpGarbage}
        \cup {HttpJson(p) : p \in SamplePayloads}

(***************************************************************************)
(* _get_json_with_retries (weather_fetcher.py 45-87).                      *)
(***************************************************************************)
TRANSIENT_STATUS == {429, 500, 502, 503, 504}
BackoffTenths == 16        \* backoff_factor = 1.6
DefaultRetries == 3        \* retries = 3

\* What one pass through the try block makes of a response: the exception it
\* raises, or NoExc when response.json() is returned.
TryBlock(r) ==
    IF r.net # "" THEN Exc(r.net, 0, "")
    ELSE IF r.status \in TRANSIENT_STATUS THEN Exc("HTTPError", r.status, "Temporary API error")
    ELSE IF r.status >= 400 /\ r.status < 500 THEN Exc("HTTPError", r.status, "Client Error")
    ELSE IF r.status >= 500 /\ r.status < 600 THEN Exc("HTTPError", r.status, "Server Error")
    ELSE IF ~r.json_ok THEN Exc("JSONDecodeError", 0, "")
    ELSE NoExc

\* wait_s = backoff_factor ** attempt, as the fraction num/den.
WaitS(attempt) == [num |-> Pow(BackoffTenths, attempt), den |-> Pow(10, attempt)]

ClientIdle ==
    [pc |-> "idle", retries |-> 0, attempt |-> 0, last_exc |-> NoExc, requests |-> 0,
     waits |-> <<>>, json |-> NoPayload, exc |-> NoExc, cause |-> NoExc]

\* After the for loop: raise RuntimeError(...) from last_exc.
ClientExhausted(c) ==
    [c EXCEPT !.pc = "raised",
              !.exc = Exc("RuntimeError", 0, "Open-Meteo API failed"),
              !.cause = c.last_exc]

\* ClientLoop with the loop running one pass too many: range(1, retries + 2).
ClientLoop_OneMore(c, next) ==
    IF next <= c.retries + 1
    THEN [c EXCEPT !.pc = "request", !.attempt = next]
    ELSE ClientExhausted(c)

\* The for loop takes its next value, or ends.
ClientLoop(c, next) ==
    IF next <= c.retries
    THEN [c EXCEPT !.pc = "request", !.attempt = next]
    ELSE ClientExhausted(c)

\* Entry: last_exc = None, then the first pass of the loop.
ClientEnter(retries) == ClientLoop([ClientIdle EXCEPT !.retries = retries], 1)

\* ClientRequest without the return inside the loop: the payload is kept and
\* the loop goes on to its next pass.
ClientRequest_NoReturn(c, r) ==
    LET e == TryBlock(r) IN
    IF e = NoExc
    THEN ClientLoop([c EXCEPT !.requests = c.requests + 1, !.json = r.payload], c.attempt + 1)
    ELSE [c EXCEPT !.pc = "sleep", !.requests = c.requests + 1, !.last_exc = e]

\* requests.get and the rest of the try block, up to `last_exc = exc`.
ClientRequest(c, r) ==
    LET e == TryBlock(r) IN
    IF e = NoExc
    THEN [c EXCEPT !.pc = "returned", !.requests = c.requests + 1, !.json = r.payload]
    ELSE [c EXCEPT !.pc = "sleep", !.requests = c.requests + 1, !.last_exc = e]

\* ClientSleep that does not sleep after the last attempt.
ClientSleep_SkipLast(c) ==
    IF c.attempt < c.retries
    THEN ClientLoop([c EXCEPT !.waits = Append(c.waits, WaitS(c.attempt))], c.attempt + 1)
    ELSE ClientLoop(c, c.attempt + 1)

\* The rest of the except block, time.sleep(wait_s), and the loop header.
ClientSleep(c) ==
    ClientLoop([c EXCEPT !.waits = Append(c.waits, WaitS(c.attempt))], c.attempt + 1)

\* The whole call, against the responses resps[1], resps[2], ...
RECURSIVE RunClient(_, _)
RunClient(c, resps) ==
    IF c.pc = "request" THEN RunClient(ClientRequest(c, resps[c.requests + 1]), resps)
    ELSE IF c.pc = "sleep" THEN RunClient(ClientSleep(c), resps)
    ELSE c

(***************************************************************************)
(* fetch_openmeteo_daily (weather_fetcher.py 90-153).                      *)
(***************************************************************************)
\* pd.to_datetime(..., errors="coerce"): what is not a date becomes NaT.
ToDatetime(t) == IF t \in Dates THEN t ELSE NaT

\* FrameRow with the date read one day late (a time zone shift).
FrameRow_ShiftDay(e) ==
    [date |-> IF ToDatetime(e.time) = NaT THEN NaT ELSE ToDatetime(e.time) + 1,
     t_max |-> e.temperature_2m_max,
     t_min |-> e.temperature_2m_min, precipitation |-> e.precipitation_sum,
     wind_max |-> e.wind_speed_10m_max]

\* One row of the DataFrame built from the daily arrays.
FrameRow(e) ==
    [date |-> ToDatetime(e.time), t_max |-> e.temperature_2m_max,
     t_min |-> e.temperature_2m_min, precipitation |-> e.precipitation_sum,
     wind_max |-> e.wind_speed_10m_max]

\* df.dropna(subset=["date"]) on a sequence of rows.
DropNaDate(rows) == SelectSeq(rows, LAMBDA r : r.date # NaT)

\* The call against the responses resps: the requests it issued, the
\* exception it raised (with its cause) or NoExc, and the DataFrame returned.
fetch_openmeteo_daily(resps) ==
    LET c == RunClient(ClientEnter(DefaultRetries), resps)
        data == c.json
    IN  IF c.pc = "raised"
        THEN [requests |-> c.requests, exc |-> c.exc, cause |-> c.cause, df |-> <<>>]
        ELSE IF ~data.daily \/ ~data.time
        THEN [requests |-> c.requests,
              exc |-> Exc("ValueError", 0, "Unexpected Open-Meteo response format"),
              cause |-> NoExc, df |-> <<>>]
        ELSE [requests |-> c.requests, exc |-> NoExc, cause |-> NoExc,
              df |-> DropNaDate([i \in 1..Len(data.series) |-> FrameRow(data.series[i])])]

(***************************************************************************)
(* download_paca_cities (weather_fetcher.py 156-198).                      *)
(***************************************************************************)
PACA_CITIES == <<"Marseille", "Nice", "Toulon", "Avignon", "Gap", "Digne-les-Bains">>

RAW_COLUMNS == {"date", "t_max", "t_min", "precipitation", "wind_max", "city"}

NoFile == [exists |-> FALSE, columns |-> {}, rows |-> <<>>]
File(columns, rows) == [exists |-> TRUE, columns |-> columns, rows |-> rows]

\* data/raw/openmeteo_paca_<start>_<end>.csv
RawPath(s, e) == <<"openmeteo_paca", s, e>>
NoPath == <<>>

\* df_city["city"] = city
TagCity(rows, city) ==
    [i \in 1..Len(rows) |->
        [date |-> rows[i].date, t_max |-> rows[i].t_max, t_min |-> rows[i].t_min,
         precipitation |-> rows[i].precipitation, wind_max |-> rows[i].wind_max,
         city |-> city]]

\* pd.concat(all_frames, ignore_index=True)
RECURSIVE Concat(_)
Concat(frames) == IF frames = <<>> THEN <<>> ELSE Head(frames) \o Concat(Tail(frames))

DlIdle ==
    [pc |-> "idle", status |-> "none", force_download |-> FALSE, cache_hit |-> FALSE,
     city_idx |-> 0, all_frames |-> <<>>, net_calls |-> 0, fetch_calls |-> 0,
     ret |-> NoPath, exc |-> NoExc, cause |-> NoExc]

\* DownloadEnter that never reuses the file.
DownloadEnter_NoCache(out_file, file, force) ==
    [DlIdle EXCEPT !.pc = "fetch", !.force_download = force, !.city_idx = 1]

\* Entry, up to the first pass of the loop over PACA_CITIES: the frame of the
\* call, given the file now at out_file.
DownloadEnter(out_file, file, force) ==
    IF file.exists /\ ~force
    THEN [DlIdle EXCEPT !.status = "returned", !.cache_hit = TRUE,
                        !.force_download = force, !.ret = out_file]
    ELSE [DlIdle EXCEPT !.pc = "fetch", !.force_download = force, !.city_idx = 1]

\* DownloadPass as a best-effort aggregate: a failed fetch saves the frames
\* fetched so far before the failure propagates.
DownloadPass_SavesPartial(d, out_file, file, f) ==
    LET counted == [d EXCEPT !.net_calls = d.net_calls + f.requests,
                             !.fetch_calls = d.fetch_calls + 1]
        frames == Append(d.all_frames, TagCity(f.df, PACA_CITIES[d.city_idx]))
    IN  IF f.exc # NoExc
        THEN [dl |-> [counted EXCEPT !.pc = "idle", !.status = "raised",
                                     !.exc = f.exc, !.cause = f.cause],
              file |-> File(RAW_COLUMNS, Concat(d.all_frames))]
        ELSE IF d.city_idx < Len(PACA_CITIES)
        THEN [dl |-> [counted EXCEPT !.city_idx = d.city_idx + 1, !.all_frames = frames],
              file |-> file]
        ELSE [dl |-> [counted EXCEPT !.pc = "idle", !.status = "returned",
                                     !.all_frames = frames, !.ret = out_file],
              file |-> File(RAW_COLUMNS, Concat(frames))]

\* One pass of the loop over PACA_CITIES, f being what fetch_openmeteo_daily
\* did, and after the last pass the concat, the to_csv and the return.
\* Gives the frame of the call and the file at out_file.
DownloadPass(d, out_file, file, f) ==
    LET counted == [d EXCEPT !.net_calls = d.net_calls + f.requests,
                             !.fetch_calls = d.fetch_calls + 1]
        frames == Append(d.all_frames, TagCity(f.df, PACA_CITIES[d.city_idx]))
    IN  IF f.exc # NoExc
        THEN [dl |-> [counted EXCEPT !.pc = "idle", !.status = "raised",
                                     !.exc = f.exc, !.cause = f.cause],
              file |-> file]
        ELSE IF d.city_idx < Len(PACA_CITIES)
        THEN [dl |-> [counted EXCEPT !.city_idx = d.city_idx + 1, !.all_frames = frames],
              file |-> file]
        ELSE [dl |-> [counted EXCEPT !.pc = "idle", !.status = "returned",
                                     !.all_frames = frames, !.ret = out_file],
              file |-> File(RAW_COLUMNS, Concat(frames))]

(***************************************************************************)
(* Python's order on the strings the code sorts.                           *)
(***************************************************************************)
PyStrOrder ==
    <<"Avignon", "Digne-les-Bains", "Gap", "Marseille", "Nice", "Toulon",
      "city", "date", "precipitation", "t_max", "t_min", "wind_max">>
\* A missing value ranks after every string (na_position="last").
StrRank(s) ==
    IF \E i \in 1..Len(PyStrOrder) : PyStrOrder[i] = s
    THEN CHOOSE i \in 1..Len(PyStrOrder) : PyStrOrder[i] = s
    ELSE Len(PyStrOrder) + 1

\* sorted(S) for a set of strings.
RECURSIVE Sorted(_)
Sorted(S) ==
    IF S = {} THEN <<>>
    ELSE LET m == CHOOSE x \in S : \A y \in S : StrRank(x) <= StrRank(y)
         IN  <<m>> \o Sorted(S \ {m})

(***************************************************************************)
(* validate_raw_schema (weather_processing.py 12-36).                      *)
(***************************************************************************)
REQUIRED_COLUMNS == {"date", "t_min", "t_max", "precipitation", "wind_max", "city"}

\* validate_raw_schema that lists the missing columns unsorted, in the order
\* REQUIRED_COLUMNS is written.
validate_raw_schema_Unsorted(d) ==
    LET missing == REQUIRED_COLUMNS \ d.columns
        written == <<"date", "t_min", "t_max", "precipitation", "wind_max", "city">>
    IN  IF missing # {}
        THEN [exc |-> Exc("ValueError", 0, "Missing required columns in raw data"),
              missing |-> SelectSeq(written, LAMBDA c : c \in missing)]
        ELSE [exc |-> NoExc, missing |-> <<>>]

\* The exception raised (NoExc when none) and the columns its message lists.
validate_raw_schema(d) ==
    LET missing == REQUIRED_COLUMNS \ d.columns
    IN  IF missing # {}
        THEN [exc |-> Exc("ValueError", 0, "Missing required columns in raw data"),
              missing |-> Sorted(missing)]
        ELSE [exc |-> NoExc, missing |-> <<>>]

(***************************************************************************)
(* add_climate_indicators (weather_processing.py 39-65).                   *)
(***************************************************************************)
Digits == <<"0", "1", "2", "3", "4", "5", "6", "7", "8", "9">>
IsDigit(ch) == \E i \in 1..10 : Digits[i] = ch
DigitVal(ch) == (CHOOSE i \in 1..10 : Digits[i] = ch) - 1

RECURSIVE DecimalValue(_)
DecimalValue(s) ==
    IF s = <<>> THEN 0
    ELSE 10 * DecimalValue(SubSeq(s, 1, Len(s) - 1)) + DigitVal(s[Len(s)])

\* pd.to_numeric(..., errors="coerce") on one cell: a number stays, a text of
\* digits is read as that whole number (in tenths), anything else is NaN.
ToNumeric(c) ==
    IF c.k = "num" THEN c
    ELSE IF c.k = "text" /\ c.s # <<>> /\ \A i \in 1..Len(c.s) : IsDigit(c.s[i])
    THEN Num(10 * DecimalValue(c.s))
    ELSE NaN

\* Ge with a strict comparison.
Ge_Strict(c, threshold) == c.k = "num" /\ c.n > threshold

\* column >= threshold on one cell: a comparison with NaN is False.
Ge(c, threshold) == c.k = "num" /\ c.n >= threshold

\* (t_min + t_max) / 2 on one row, in twentieths; NaN if either is NaN.
Mean(a, b) == IF a.k = "num" /\ b.k = "num" THEN Num(a.n + b.n) ELSE NaN

IndicatorRow(r) ==
    LET t_min == ToNumeric(r.t_min)
        t_max == ToNumeric(r.t_max)
        precipitation == ToNumeric(r.precipitation)
        wind_max == ToNumeric(r.wind_max)
    IN  [date |-> r.date, city |-> r.city,
         t_min |-> t_min, t_max |-> t_max,
         precipitation |-> precipitation, wind_max |-> wind_max,
         t_mean |-> Mean(t_min, t_max),
         hot_day_30 |-> Ge(t_max, 300),
         hot_day_35 |-> Ge(t_max, 350),
         heavy_rain_20 |-> Ge(precipitation, 200)]

INDICATOR_COLUMNS == {"t_mean", "hot_day_30", "hot_day_35", "heavy_rain_20"}
NUMERIC_COLUMNS == {"t_min", "t_max", "precipitation", "wind_max"}

\* The exception raised (a KeyError when a column it reads is absent) and the
\* DataFrame returned.
add_climate_indicators(d) ==
    IF ~(NUMERIC_COLUMNS \subseteq d.columns)
    THEN [exc |-> Exc("KeyError", 0, ""), out |-> NoFile]
    ELSE [exc |-> NoExc,
          out |-> File(d.columns \cup INDICATOR_COLUMNS,
                       [i \in 1..Len(d.rows) |-> IndicatorRow(d.rows[i])])]

(***************************************************************************)
(* process_raw_to_processed (weather_processing.py 68-112).                *)
(***************************************************************************)
\* df.dropna(subset=["date", "city"])
DropNaDateCity(rows) == SelectSeq(rows, LAMBDA r : r.date # NaT /\ r.city # NoCity)

\* Before with the sort keys swapped: sort_values(["date", "city"]).
Before_DateFirst(a, b) ==
    \/ a.date < b.date
    \/ a.date = b.date /\ StrRank(a.city) < StrRank(b.city)

\* Row a goes before row b under sort_values(["city", "date"]).
Before(a, b) ==
    \/ StrRank(a.city) < StrRank(b.city)
    \/ a.city = b.city /\ a.date < b.date

\* Insert r into the sorted rows, after the rows that do not go after it.
RECURSIVE Insert(_, _)
Insert(rows, r) ==
    IF rows = <<>> THEN <<r>>
    ELSE IF Before(r, Head(rows)) THEN <<r>> \o rows
    ELSE <<Head(rows)>> \o Insert(Tail(rows), r)

\* df.sort_values(["city", "date"]).reset_index(drop=True): a stable sort.
RECURSIVE SortValues(_)
SortValues(rows) ==
    IF rows = <<>> THEN <<>>
    ELSE Insert(SortValues(SubSeq(rows, 1, Len(rows) - 1)), rows[Len(rows)])

\* data/processed/<raw stem>_processed.csv
ProcessedPath(raw_path) == raw_path \o <<"processed">>

\* The basic cleaning of lines 98-99.
Clean(rows) == SortValues(DropNaDateCity(rows))

\* The call on the file now at raw_path: the exception raised or NoExc, the
\* columns a schema error lists, the path returned and the file written.
process_raw_to_processed(raw_path, file) ==
    LET v == validate_raw_schema(file)
        cleaned == File(file.columns, Clean(file.rows))
    IN  IF ~file.exists
        THEN [exc |-> Exc("FileNotFoundError", 0, "Raw file not found"),
              missing |-> <<>>, ret |-> NoPath, written |-> NoFile]
        ELSE IF "date" \notin file.columns
        THEN [exc |-> Exc("ValueError", 0, "Missing column provided to 'parse_dates'"),
              missing |-> <<>>, ret |-> NoPath, written |-> NoFile]
        ELSE IF v.exc # NoExc
        THEN [exc |-> v.exc, missing |-> v.missing, ret |-> NoPath, written |-> NoFile]
        ELSE [exc |-> NoExc, missing |-> <<>>, ret |-> ProcessedPath(raw_path),
              written |-> add_climate_indicators(cleaned).out]

(***************************************************************************)
(* State.                                                                  *)
(***************************************************************************)
UserDates == 1..MaxDate
RawPaths == {RawPath(s, e) : s \in UserDates, e \in UserDates}
ProcessedPaths == {ProcessedPath(p) : p \in RawPaths}

out_file == RawPath(start_date, end_date)

ProcIdle == [op |-> "none", exc |-> NoExc, missing |-> <<>>, ret |-> NoPath, out |-> NoFile]

\* What the upstream archive can serve for the range: one daily entry per
\* requested day, dated that day or the day after it (so that the last entry
\* can fall outside the range), or with a time that is no date.
Days == end_date - start_date + 1
SlotTimes(i) == {start_date + i - 1, start_date + i, BadTime}
Archives ==
    {[i \in 1..Days |-> Entry(ts[i])] :
        ts \in {x \in [1..Days -> Dates \cup {BadTime}] : \A i \in 1..Days : x[i] \in SlotTimes(i)}}

\* The responses a request of a download can meet.
ArchiveResponses ==
    {HttpJson(Payload(TRUE, TRUE, archive)), HttpJson(NoPayload),
     HttpStatus(404), HttpStatus(503)}

\* The raw datasets the processing functions are applied to: any set of
\* columns without rows, and every sequence of up to MaxRows rows under the
\* columns of a raw file.
EXTRA_COLUMNS == {"humidity"}
TMaxCells == {NaN, Num(299), Num(300), Num(350), Text(<<"3", "5">>), Text(<<"x">>)}
RawRow(d, c, t) ==
    [date |-> d, t_max |-> t, t_min |-> Num(200), precipitation |-> Num(250),
     wind_max |-> NaN, city |-> c]
RawRows ==
    {RawRow(d, c, Num(310)) : d \in {NaT, 1, 2}, c \in {NoCity, "Nice", "Gap"}}
        \cup {RawRow(1, "Gap", t) : t \in TMaxCells}
Datasets ==
    {File(cols, <<>>) : cols \in SUBSET (REQUIRED_COLUMNS \cup EXTRA_COLUMNS)}
        \cup {File(RAW_COLUMNS, rows) : rows \in SeqsUpTo(RawRows, MaxRows)}

InitCommon ==
    /\ client = ClientIdle
    /\ log = <<>>
    /\ fs_processed = [p \in ProcessedPaths |-> NoFile]
    /\ dl = DlIdle
    /\ proc = ProcIdle

(***************************************************************************)
(* SpecHTTP: _get_json_with_retries called directly.                       *)
(***************************************************************************)
InitHTTP ==
    /\ InitCommon
    /\ start_date = 1 /\ end_date = 1
    /\ fs_raw = [p \in RawPaths |-> NoFile]
    /\ archive = <<>>
    /\ df = NoFile

HttpCall ==
    /\ client.pc \notin {"request", "sleep"}
    /\ \E n \in 0..MaxRetries : client' = ClientEnter(n)
    /\ log' = <<>>
    /\ UNCHANGED <<start_date, end_date, fs_raw, fs_processed, dl, archive, proc, df>>

HttpRequest ==
    /\ client.pc = "request"
    /\ \E r \in Responses :
        /\ client' = ClientRequest(client, r)
        /\ log' = Append(log, r)
    /\ UNCHANGED <<start_date, end_date, fs_raw, fs_processed, dl, archive, proc, df>>

HttpSleep ==
    /\ client.pc = "sleep"
    /\ client' = ClientSleep(client)
    /\ UNCHANGED <<log, start_date, end_date, fs_raw, fs_processed, dl, archive, proc, df>>

NextHTTP == HttpCall \/ HttpRequest \/ HttpSleep

SpecHTTP == InitHTTP /\ [][NextHTTP]_vars

(***************************************************************************)
(* Spec: the pipeline of app/streamlit_app.py run_pipeline, its two calls  *)
(* made in any order and any number of times on one date range.            *)
(***************************************************************************)
Init ==
    /\ InitCommon
    /\ start_date \in UserDates /\ end_date \in UserDates
    /\ start_date <= end_date
    /\ fs_raw = [p \in RawPaths |-> NoFile]
    /\ archive \in Archives
    /\ df = NoFile

DownloadCall ==
    /\ dl.pc = "idle"
    /\ \E force \in BOOLEAN : dl' = DownloadEnter(out_file, fs_raw[out_file], force)
    /\ UNCHANGED <<client, log, start_date, end_date, fs_raw, fs_processed, archive, proc, df>>

FetchCity ==
    /\ dl.pc = "fetch"
    /\ \E f \in {fetch_openmeteo_daily(resps) : resps \in [1..DefaultRetries -> ArchiveResponses]} :
        LET p == DownloadPass(dl, out_file, fs_raw[out_file], f)
        IN  /\ dl' = p.dl
            /\ fs_raw' = [fs_raw EXCEPT ![out_file] = p.file]
    /\ UNCHANGED <<client, log, start_date, end_date, fs_processed, archive, proc, df>>

ProcessCall ==
    /\ dl.pc = "idle"
    /\ LET p == process_raw_to_processed(out_file, fs_raw[out_file])
       IN  /\ proc' = [op |-> "process", exc |-> p.exc, missing |-> p.missing,
                       ret |-> p.ret, out |-> p.written]
           /\ fs_processed' =
                IF p.exc = NoExc THEN [fs_processed EXCEPT ![p.ret] = p.written]
                ELSE fs_processed
    /\ UNCHANGED <<client, log, start_date, end_date, fs_raw, dl, archive, df>>

Next == DownloadCall \/ FetchCity \/ ProcessCall

Spec == Init /\ [][Next]_vars

(***************************************************************************)
(* SpecProc: the processing functions on bounded raw datasets.             *)
(***************************************************************************)
InitProc ==
    /\ InitCommon
    /\ start_date = 1 /\ end_date = 1
    /\ df \in Datasets
    /\ fs_raw = [p \in RawPaths |-> IF p = RawPath(1, 1) THEN df ELSE NoFile]
    /\ archive = <<>>

ValidateCall ==
    /\ LET v == validate_raw_schema(df)
       IN  proc' = [op |-> "validate", exc |-> v.exc, missing |-> v.missing,
                    ret |-> NoPath, out |-> NoFile]
    /\ UNCHANGED <<client, log, start_date, end_date, fs_raw, fs_processed, dl, archive, df>>

IndicatorsCall ==
    /\ LET a == add_climate_indicators(df)
       IN  proc' = [op |-> "indicators", exc |-> a.exc, missing |-> <<>>,
                    ret |-> NoPath, out |-> a.out]
    /\ UNCHANGED <<client, log, start_date, end_date, fs_raw, fs_processed, dl, archive, df>>

NextProc == ValidateCall \/ IndicatorsCall \/ ProcessCall

SpecProc == InitProc /\ [][NextProc]_vars

(***************************************************************************)
(* Properties of _get_json_with_retries, under SpecHTTP.                   *)
(***************************************************************************)
\* The classes of responses, as the specification words them.
IsOk(r) == r.net = "" /\ r.status = 200 /\ r.json_ok
IsTransient(r) == r.net # "" \/ r.status \in {429, 500, 502, 503, 504}
IsPermanent(r) == r.net = "" /\ r.status >= 400 /\ r.status < 500 /\ r.status # 429
Failed(S) == Cardinality({i \in S : ~IsOk(log[i])})

\* C1: when the first response has a 4xx status other than 429, exactly one
\* request is issued, no backoff wait happens, and the call ends with the
\* HTTP error itself, not with the retry-exhausted error.
C1_PermanentFailsImmediately ==
    (client.retries >= 1 /\ Len(log) >= 1 /\ IsPermanent(log[1])) =>
        /\ client.requests = 1
        /\ client.waits = <<>>
        /\ client.pc # "request"
        /\ client.pc = "raised" =>
            client.exc.type = "HTTPError" /\ client.exc.status = log[1].status

\* C4: while every attempt is a transient failure the call issues one
\* request per response and never more than retries, never returns a
\* payload, and ends only after retries requests, with the retry-exhausted
\* error whose cause is the failure of the last attempt.
C4_ExhaustsAfterMaxRetries ==
    /\ client.requests <= client.retries
    /\ (client.retries >= 1 /\ \A i \in 1..Len(log) : IsTransient(log[i])) =>
        /\ client.requests = Len(log)
        /\ client.pc # "returned"
        /\ client.pc = "request" => client.requests < client.retries
        /\ client.pc = "raised" =>
            /\ client.requests = client.retries
            /\ client.exc.type = "RuntimeError"
            /\ client.cause.type =
                (IF log[Len(log)].net # "" THEN log[Len(log)].net ELSE "HTTPError")
            /\ client.cause.status = log[Len(log)].status

C4_Witness ==
    /\ client.pc = "raised" /\ client.retries = 3 /\ Len(log) = 3
    /\ log[1] = HttpStatus(500) /\ log[2] = NetFailure("Timeout") /\ log[3] = HttpStatus(429)
    /\ client.cause = Exc("HTTPError", 429, "Temporary API error")

\* C5: k transient failures followed by a 200, with k < retries: the call has
\* returned after exactly k + 1 requests and k waits, its value is the payload
\* of the 200 response, and no request follows it.
C5_SucceedsAfterKRetries ==
    \A k \in 0..(Len(log) - 1) :
        (/\ k < client.retries
         /\ \A i \in 1..k : IsTransient(log[i])
         /\ IsOk(log[k + 1])) =>
            /\ Len(log) = k + 1
            /\ client.requests = k + 1
            /\ Len(client.waits) = k
            /\ client.pc = "returned"
            /\ client.json = log[k + 1].payload

C5_Witness ==
    /\ client.pc = "returned" /\ client.retries = 3
    /\ log = <<HttpStatus(503), HttpStatus(503), HttpJson(Payload(TRUE, TRUE, <<Entry(1)>>))>>
    /\ client.json = Payload(TRUE, TRUE, <<Entry(1)>>)

\* C10: every failed attempt n is followed by a wait of backoff_factor ** n
\* before anything else happens: the waits are one per failed attempt, the
\* only pending one being that of a call about to sleep, and a call that
\* exhausted its retries has slept retries times, as often as it requested.
C10_WaitAfterEveryFailure ==
    /\ Len(client.waits) = Failed(1..Len(log)) - (IF client.pc = "sleep" THEN 1 ELSE 0)
    /\ client.pc = "sleep" => Len(log) >= 1 /\ ~IsOk(log[Len(log)])
    /\ \A n \in 1..Len(client.waits) :
        client.waits[n] = [num |-> Pow(16, n), den |-> Pow(10, n)]
    /\ (client.pc = "raised" /\ client.retries >= 1) =>
        /\ Len(client.waits) = client.retries
        /\ client.requests = client.retries

C10_Witness ==
    /\ client.pc = "raised" /\ client.retries = 3 /\ client.requests = 3
    /\ client.waits = <<[num |-> 16, den |-> 10], [num |-> 256, den |-> 100],
                        [num |-> 4096, den |-> 1000]>>

(***************************************************************************)
(* Properties of download_paca_cities and the pipeline, under Spec.        *)
(***************************************************************************)
raw_file == fs_raw[out_file]
processed_file == fs_processed[ProcessedPath(out_file)]
NumCities == Len(PACA_CITIES)

\* The dates the upstream serves that are dates, in the order served.
ServedDates ==
    SelectSeq([i \in 1..Len(archive) |-> archive[i].time], LAMBDA t : t \in Dates)

\* The dates of the rows of one city, in file order.
CityDates(rows, city) ==
    LET own == SelectSeq(rows, LAMBDA r : r.city = city)
    IN  [i \in 1..Len(own) |-> own[i].date]

\* C2 (state part): a call that returned after downloading has invoked
\* fetch_openmeteo_daily once per registry location, in registry order, and
\* left the raw file at the path it returns; a call that returned on a cache
\* hit has issued no network call and invoked no fetch.
C2_ReturnedCall ==
    dl.status = "returned" =>
        /\ dl.ret = out_file
        /\ raw_file.exists
        /\ ~dl.cache_hit =>
            /\ dl.fetch_calls = NumCities
            /\ dl.net_calls >= NumCities
            /\ Len(dl.all_frames) = NumCities
            /\ \A i \in 1..NumCities : \A j \in 1..Len(dl.all_frames[i]) :
                dl.all_frames[i][j].city = PACA_CITIES[i]
        /\ dl.cache_hit => dl.net_calls = 0 /\ dl.fetch_calls = 0

\* C2 (step part): a call made with force_download = false while the raw file
\* exists returns at once, with the path of that file, without any network
\* call, and leaves the file unchanged.
C2_SecondCallStep ==
    (dl.pc = "idle" /\ dl' # dl /\ raw_file.exists /\ ~dl'.force_download) =>
        /\ dl'.pc = "idle" /\ dl'.status = "returned" /\ dl'.cache_hit
        /\ dl'.net_calls = 0 /\ dl'.fetch_calls = 0
        /\ dl'.ret = out_file
        /\ fs_raw' = fs_raw

\* C2: two calls with the same range and force_download = false, the first
\* from no raw file and succeeding, make one network round-trip set: the
\* first fetches once per registry location, the second issues no network
\* call, leaves the raw file unchanged and returns the same path.
C2_OneRoundTripSet == []C2_ReturnedCall /\ [][C2_SecondCallStep]_vars

C2_Witness ==
    /\ dl.status = "returned" /\ dl.cache_hit /\ ~dl.force_download
    /\ dl.net_calls = 0 /\ dl.ret = out_file
    /\ raw_file.exists /\ Len(raw_file.rows) = NumCities

\* C3 (step part): a pass of the loop in which the fetch fails ends the call
\* with that failure and leaves the raw file as it was; a pass after which
\* the loop goes on leaves it as it was too; the file changes only in the
\* pass that completes the call, to the concatenation of all the frames.
C3_FailFastStep ==
    /\ (dl.pc = "fetch" /\ dl'.status = "raised") =>
        /\ fs_raw' = fs_raw
        /\ dl'.pc = "idle" /\ dl'.exc # NoExc
        /\ dl'.fetch_calls = dl.city_idx
    /\ (dl.pc = "fetch" /\ dl'.pc = "fetch") => fs_raw' = fs_raw
    /\ fs_raw' # fs_raw =>
        /\ dl'.status = "returned" /\ Len(dl'.all_frames) = NumCities
        /\ fs_raw'[out_file].rows = Concat(dl'.all_frames)

\* C3 (state part): after a failure no later location is fetched, and a raw
\* file that exists holds, for every registry location, the whole series of
\* one completed download.
C3_FailFastState ==
    /\ dl.status = "raised" =>
        dl.pc = "idle" /\ dl.fetch_calls = dl.city_idx /\ dl.fetch_calls <= NumCities
    /\ raw_file.exists =>
        \A i \in 1..NumCities : CityDates(raw_file.rows, PACA_CITIES[i]) = ServedDates

\* C3: download_paca_cities is fail-fast with no partial-success persistence.
C3_FailFast == []C3_FailFastState /\ [][C3_FailFastStep]_vars

C3_Witness ==
    /\ dl.status = "raised" /\ dl.force_download
    /\ dl.city_idx = 4 /\ dl.fetch_calls = 4 /\ Len(dl.all_frames) = 3
    /\ dl.all_frames[1] # <<>>
    /\ raw_file.exists /\ Len(raw_file.rows) = NumCities

\* C6, as the specification words it: after download and process every row
\* of the processed file has its date within [start_date, end_date],
\* whatever dates the upstream served.
C6_ProcessedDatesInRange ==
    processed_file.exists =>
        \A i \in 1..Len(processed_file.rows) :
            /\ start_date <= processed_file.rows[i].date
            /\ processed_file.rows[i].date <= end_date

\* C6, amended: after download and process every row of the processed file
\* has a date that the upstream served for the range, so it lies within
\* [start_date, end_date] whenever every date the upstream served does.
C6_ProcessedDatesAreServed ==
    processed_file.exists =>
        \A i \in 1..Len(processed_file.rows) :
            /\ \E j \in 1..Len(ServedDates) : processed_file.rows[i].date = ServedDates[j]
            /\ (\A j \in 1..Len(ServedDates) :
                    start_date <= ServedDates[j] /\ ServedDates[j] <= end_date) =>
                (/\ start_date <= processed_file.rows[i].date
                 /\ processed_file.rows[i].date <= end_date)

C6_Witness ==
    /\ proc.op = "process" /\ proc.exc = NoExc
    /\ start_date < end_date
    /\ processed_file.exists /\ Len(processed_file.rows) = 2 * NumCities
    /\ \A i \in 1..Len(processed_file.rows) :
        start_date <= processed_file.rows[i].date /\ processed_file.rows[i].date <= end_date

(***************************************************************************)
(* Properties of the processing functions, under SpecProc.                 *)
(***************************************************************************)
\* How often each (date, city) occurs among the rows.
KeyBag(rows) ==
    LET keys == {<<rows[i].date, rows[i].city>> : i \in 1..Len(rows)}
    IN  [k \in keys |-> Cardinality({i \in 1..Len(rows) : <<rows[i].date, rows[i].city>> = k})]

\* C7: for a raw dataset that passes validation the processed file holds
\* exactly the raw rows whose date and city are both present (none with a
\* missing date or city, none other dropped or added), ordered by city
\* ascending, then date ascending.
C7_CleanedAndSorted ==
    (proc.op = "process" /\ proc.exc = NoExc) =>
        LET out == processed_file.rows
            kept == SelectSeq(raw_file.rows, LAMBDA r : r.date # NaT /\ r.city # NoCity)
        IN  /\ processed_file.exists
            /\ \A i \in 1..Len(out) : out[i].date # NaT /\ out[i].city # NoCity
            /\ Len(out) = Len(kept)
            /\ KeyBag(out) = KeyBag(kept)
            /\ \A i \in 1..Len(out) : \A j \in (i + 1)..Len(out) :
                \/ StrRank(out[i].city) < StrRank(out[j].city)
                \/ out[i].city = out[j].city /\ out[i].date <= out[j].date

C7_Witness ==
    /\ proc.op = "process" /\ proc.exc = NoExc
    /\ raw_file.rows = <<RawRow(1, "Nice", Num(310)), RawRow(2, "Gap", Num(310))>>
    /\ Len(processed_file.rows) = 2
    /\ processed_file.rows[1].city = "Gap" /\ processed_file.rows[1].date = 2
    /\ processed_file.rows[2].city = "Nice" /\ processed_file.rows[2].date = 1

\* C8: validate_raw_schema raises its error if and only if a required column
\* is absent, and the error lists exactly the absent required columns, in
\* sorted order; columns that are not required never matter.
C8_MissingColumnsSorted ==
    proc.op = "validate" =>
        LET required == {"date", "t_min", "t_max", "precipitation", "wind_max", "city"}
            absent == required \ df.columns
        IN  /\ (proc.exc.type = "ValueError") <=> (absent # {})
            /\ absent = {} => proc.exc = NoExc
            /\ {proc.missing[i] : i \in 1..Len(proc.missing)} = absent
            /\ Len(proc.missing) = Cardinality(absent)
            /\ \A i \in 1..Len(proc.missing) : \A j \in (i + 1)..Len(proc.missing) :
                StrRank(proc.missing[i]) < StrRank(proc.missing[j])
            /\ absent = {"wind_max", "city"} => proc.missing = <<"city", "wind_max">>
            /\ absent = required =>
                proc.missing = <<"city", "date", "precipitation", "t_max", "t_min", "wind_max">>

C8_Witness ==
    /\ proc.op = "validate"
    /\ df.columns = {"date", "t_min", "t_max", "precipitation", "humidity"}
    /\ proc.exc.type = "ValueError"
    /\ proc.missing = <<"city", "wind_max">>

\* C9: in every row that add_climate_indicators gives, hot_day_30 is true
\* exactly when t_max is a number >= 30, a missing or unparsable t_max giving
\* false; so hot_day_35 implies hot_day_30.
HotDayRow(raw, out) ==
    /\ out.hot_day_30 <=> (out.t_max.k = "num" /\ out.t_max.n >= 300)
    /\ raw.t_max.k = "num" => (out.hot_day_30 <=> raw.t_max.n >= 300)
    /\ raw.t_max.k = "nan" => ~out.hot_day_30
    /\ raw.t_max = Text(<<"x">>) => ~out.hot_day_30
    /\ raw.t_max = Text(<<"3", "5">>) => out.hot_day_30
    /\ out.hot_day_35 => out.hot_day_30

C9_HotDay30 ==
    /\ (proc.op = "indicators" /\ proc.exc = NoExc) =>
        /\ Len(proc.out.rows) = Len(df.rows)
        /\ \A i \in 1..Len(df.rows) : HotDayRow(df.rows[i], proc.out.rows[i])
    /\ processed_file.exists =>
        \A i \in 1..Len(processed_file.rows) :
            HotDayRow(processed_file.rows[i], processed_file.rows[i])

C9_Witness ==
    /\ proc.op = "indicators" /\ proc.exc = NoExc
    /\ df.rows = <<RawRow(1, "Gap", NaN), RawRow(1, "Gap", Num(300))>>
    /\ ~proc.out.rows[1].hot_day_30 /\ ~proc.out.rows[1].hot_day_35
    /\ proc.out.rows[2].hot_day_30 /\ ~proc.out.rows[2].hot_day_35

====
